---- MODULE Spec2Model ----
(***************************************************************************)
(* The PFCP simulator's gRPC service (internal/pfcpsim/server.go): the     *)
(* package state (remote peer address, N3 address, remotePeerConnected,    *)
(* activeSessions) and the six RPC handlers Configure, Associate,          *)
(* Disassociate, CreateSession, ModifySession and DeleteSession.  Every    *)
(* handler is one action; the calls it makes to the PFCP client `sim` are  *)
(* recorded, in order, in the response record `last`, which the caller     *)
(* receives in the step Return.  Calls are served one at a time.           *)
(*                                                                         *)
(* Text inputs are modelled by their fields: an IP address string is the   *)
(* sequence of its dot-separated decimal fields (<<>> is the empty         *)
(* string), a CIDR string is an address string and a prefix length.        *)
(***************************************************************************)
EXTENDS Integers, Sequences, FiniteSets, TLC

VARIABLES
    remotePeerAddress,    \* package variable set by Configure
    upfN3Address,         \* package variable set by Configure
    remotePeerConnected,  \* package variable read by isRemotePeerConnected
    activeSessions,       \* map: session key -> session handle
    nextHandle,           \* number of sessions the PFCP client has established
    configureOK,          \* history: some Configure call has returned OK
    associateOK,          \* history: an Associate call returned OK and no
                          \*          Disassociate call has returned OK since
    created,              \* history: the call returned last, when it was a
                          \*          successful CreateSession
    last,                 \* the RPC call being returned: request, response,
                          \* client calls; Idle between calls
    peerSessions,         \* the sessions the PFCP client has established and
                          \* not deleted
    pc,                   \* RPC workers: the statement each one is at
    loc,                  \* RPC workers: the request and the locals of each
    openConns,            \* transport connections opened and not closed
    delCalls,             \* history: sim.DeleteSession calls per session
    access                \* history: the last access to activeSessions

\* the state of the RPC workers that serve calls side by side
concVars == <<pc, loc, openConns, delCalls, access>>

vars == <<remotePeerAddress, upfN3Address, remotePeerConnected, activeSessions,
          nextHandle, configureOK, associateOK, created, last, peerSessions,
          pc, loc, openConns, delCalls, access>>

----------------------------------------------------------------------------
(* Program constants and the bounds of the model *)

SessionStep == 10

\* isNumOfAppFiltersCorrect: the largest accepted number of application filters
MaxAppFilters == 5

\* the largest count a session request carries
MaxCount == 2

\* the number of sessions the PFCP client establishes in one behaviour
MaxHandles == 2

\* uint16(x) of a non-negative int
Uint16(x) == x % 65536

\* uint32(x) of a non-negative int below 2^32 (every value of the model is)
Uint32(x) == x

\* FAR action flags (session.ActionForward, ActionBuffer, ActionNotify); an
\* action byte is the set of the flags or-ed into it
ActionForward == {"Forward"}

ActionBuffer == {"Buffer"}

ActionNotify == {"Notify"}

----------------------------------------------------------------------------
(* Inputs *)

BaseIDs == {1, 65535}

Counts == 0..MaxCount

RemotePeerInputs == {"", "10.0.0.1"}

\* "", "10.0.0.2", "10.0.0.256" (a field out of range), "10.0.2" (three fields)
N3Inputs == {<<>>, <<10, 0, 0, 2>>, <<10, 0, 0, 256>>, <<10, 0, 2>>}

\* UE address pools: "10.1.0.0/24", "10.1.0.255/16", "10.1.0.0/33" (malformed)
PoolNet == [addr |-> <<10, 1, 0, 0>>, plen |-> 24]

PoolHost == [addr |-> <<10, 1, 0, 255>>, plen |-> 16]

PoolBad == [addr |-> <<10, 1, 0, 0>>, plen |-> 33]

\* application filter strings: "ok" parses, "bad" does not
FiltersOf(n) == [j \in 1..n |-> "ok"]

\* CreateSession requests: <<UeAddressPool, AppFilters>>
CreateInputs ==
    ({PoolNet, PoolHost} \X {FiltersOf(0), FiltersOf(2)})
        \cup ({PoolNet} \X {FiltersOf(MaxAppFilters + 1), <<"ok", "bad">>})
        \cup ({PoolBad} \X {FiltersOf(0), FiltersOf(MaxAppFilters + 1)})

\* ModifySession requests: <<BufferFlag, NotifyCPFlag, AppFilters>>
ModifyInputs ==
    (BOOLEAN \X BOOLEAN \X {FiltersOf(2)})
        \cup { <<FALSE, FALSE, FiltersOf(0)>>,
               <<TRUE, FALSE, FiltersOf(MaxAppFilters + 1)>> }

\* which of the handler's session calls to the PFCP client fails: the
\* failAt-th one, none when failAt = 0 (a call makes at most count of them)
FailInputs(count) == 0..count

----------------------------------------------------------------------------
(* net.ParseIP, net.ParseCIDR, iplib.NextIP *)

\* net.ParseIP(s) # nil, for the IPv4 dotted form
IsIP(s) == Len(s) = 4 /\ \A k \in 1..4 : s[k] \in 0..255

\* net.ParseCIDR(p) returns err = nil
IsCIDR(p) == IsIP(p.addr) /\ p.plen \in 0..32

Pow2(n) == IF n = 0 THEN 1 ELSE IF n = 1 THEN 2 ELSE IF n = 2 THEN 4
           ELSE IF n = 3 THEN 8 ELSE IF n = 4 THEN 16 ELSE IF n = 5 THEN 32
           ELSE IF n = 6 THEN 64 ELSE IF n = 7 THEN 128 ELSE 256

\* the number of network bits of prefix length plen in octet k (1..4)
NetBits(plen, k) ==
    LET b == plen - 8 * (k - 1) IN IF b < 0 THEN 0 ELSE IF b > 8 THEN 8 ELSE b

\* net.ParseCIDR's first result: the address as written
CIDRAddress(p) == p.addr

\* net.ParseCIDR's second result: the address masked to the prefix length
CIDRNetwork(p) ==
    [k \in 1..4 |-> p.addr[k] - (p.addr[k] % Pow2(8 - NetBits(p.plen, k)))]

\* iplib.NextIP: the address plus one, with carry; the last address stays
NextIP(ip) ==
    IF ip[4] < 255 THEN <<ip[1], ip[2], ip[3], ip[4] + 1>>
    ELSE IF ip[3] < 255 THEN <<ip[1], ip[2], ip[3] + 1, 0>>
    ELSE IF ip[2] < 255 THEN <<ip[1], ip[2] + 1, 0, 0>>
    ELSE IF ip[1] < 255 THEN <<ip[1] + 1, 0, 0, 0>>
    ELSE ip

----------------------------------------------------------------------------
(* Package state helpers (internal/pfcpsim/state.go) *)

\* isConfigured(): a Configure call has stored a well-formed N3 address
isConfigured == upfN3Address # <<>>

isRemotePeerConnected == remotePeerConnected

\* checkServerStatus(): the error kind, "None" for nil
checkServerStatus ==
    IF ~isConfigured THEN "NotConfigured"
    ELSE IF ~isRemotePeerConnected THEN "NotAssociated"
    ELSE "None"

\* isNumOfAppFiltersCorrect(filters) = nil
isNumOfAppFiltersCorrect(filters) == Len(filters) <= MaxAppFilters

\* parseAppFilter(filter) returns err = nil
parseAppFilterOK(filter) == filter = "ok"

\* the session store: insertSession, getSession, deleteSession, len
insertSession(store, i, sess) ==
    [k \in (DOMAIN store) \cup {i} |-> IF k = i THEN sess ELSE store[k]]

hasSession(store, i) == i \in DOMAIN store

deleteSession(store, i) == [k \in (DOMAIN store) \ {i} |-> store[k]]

lenSessions(store) == Cardinality(DOMAIN store)

EmptyStore == [k \in {} |-> 0]

----------------------------------------------------------------------------
(* Responses *)

\* a response: the gRPC status code, the error kind, the calls made to the
\* PFCP client in order, the keys inserted in order, and the state the call
\* started in (the session store, checkServerStatus(), the two histories)
Response(op, req, code, err, calls, inserts) ==
    [op |-> op, req |-> req, code |-> code, err |-> err, calls |-> calls,
     inserts |-> inserts, before |-> activeSessions,
     status |-> checkServerStatus,
     wasConfigured |-> configureOK, wasAssociated |-> associateOK,
     prev |-> created]

NoRequest == [none |-> TRUE]

\* no successful CreateSession call was returned last
NoCreate == [ok |-> FALSE, baseID |-> 0, count |-> 0, size |-> 0,
             ready |-> FALSE, filters |-> 0]

\* no call is being served
Idle ==
    [op |-> "Idle", req |-> NoRequest, code |-> "OK", err |-> "None",
     calls |-> <<>>, inserts |-> <<>>, before |-> EmptyStore,
     status |-> "None", wasConfigured |-> FALSE, wasAssociated |-> FALSE,
     prev |-> NoCreate]

\* the RPC workers of the gRPC server
Workers == {"w1", "w2"}

\* a worker that serves no call
NoCall == [op |-> "None", baseID |-> 0, count |-> 0, i |-> 0, sess |-> 0,
           cancelled |-> FALSE, late |-> FALSE, code |-> "None"]

NoAccess == [worker |-> "none", fn |-> "none", locked |-> TRUE]

ConcInit ==
    /\ pc = [w \in Workers |-> "idle"]
    /\ loc = [w \in Workers |-> NoCall]
    /\ openConns = 0
    /\ delCalls = [h \in 1..MaxHandles |-> 0]
    /\ access = NoAccess

Init ==
    /\ ConcInit
    /\ peerSessions = {}
    /\ remotePeerAddress = ""
    /\ upfN3Address = <<>>
    /\ remotePeerConnected = FALSE
    /\ activeSessions = EmptyStore
    /\ nextHandle = 0
    /\ configureOK = FALSE
    /\ associateOK = FALSE
    /\ created = NoCreate
    /\ last = Idle

\* the response reaches the caller; the service is ready for the next call
Return ==
    /\ last.op # "Idle"
    /\ UNCHANGED concVars
    /\ last' = Idle
    /\ created' = IF last.op = "CreateSession" /\ last.code = "OK"
                  THEN [ok |-> TRUE, baseID |-> last.req.baseID,
                        count |-> last.req.count,
                        size |-> lenSessions(last.before),
                        ready |-> last.wasConfigured /\ last.wasAssociated,
                        filters |-> Len(last.req.appFilters)]
                  ELSE NoCreate
    /\ UNCHANGED <<remotePeerAddress, upfN3Address, remotePeerConnected,
                   activeSessions, nextHandle, configureOK, associateOK,
                   peerSessions>>

----------------------------------------------------------------------------
(* Configure, Associate, Disassociate *)

\* a variant of Configure: the remote peer address is stored before the N3
\* address is parsed
ConfigureStoreFirst ==
    \E peer \in RemotePeerInputs, n3 \in N3Inputs :
        LET req == [remotePeerAddress |-> peer, upfN3Address |-> n3] IN
        /\ last.op = "Idle"
        /\ UNCHANGED concVars
        /\ UNCHANGED <<created, peerSessions>>
        /\ remotePeerAddress' = peer
        /\ IF ~IsIP(n3)
           THEN /\ last' = Response("Configure", req, "Aborted", "InvalidAddress",
                                    <<>>, <<>>)
                /\ UNCHANGED <<upfN3Address, remotePeerConnected,
                               activeSessions, nextHandle, configureOK, associateOK>>
           ELSE /\ upfN3Address' = n3
                /\ configureOK' = TRUE
                /\ last' = Response("Configure", req, "OK", "None", <<>>, <<>>)
                /\ UNCHANGED <<remotePeerConnected, activeSessions, nextHandle,
                               associateOK>>

Configure ==
    \E peer \in RemotePeerInputs, n3 \in N3Inputs :
        LET req == [remotePeerAddress |-> peer, upfN3Address |-> n3] IN
        /\ last.op = "Idle"
        /\ UNCHANGED concVars
        /\ UNCHANGED <<created, peerSessions>>
        /\ IF ~IsIP(n3)
           THEN /\ last' = Response("Configure", req, "Aborted", "InvalidAddress",
                                    <<>>, <<>>)
                /\ UNCHANGED <<remotePeerAddress, upfN3Address, remotePeerConnected,
                               activeSessions, nextHandle, configureOK, associateOK>>
           ELSE /\ remotePeerAddress' = peer
                /\ upfN3Address' = n3
                /\ configureOK' = TRUE
                /\ last' = Response("Configure", req, "OK", "None", <<>>, <<>>)
                /\ UNCHANGED <<remotePeerConnected, activeSessions, nextHandle,
                               associateOK>>

\* connectPFCPSim(): sim.ConnectN4(remotePeerAddress); on success the package
\* records the connection
connectPFCPSim(connectOK) ==
    [ok |-> connectOK,
     connected |-> IF connectOK THEN TRUE ELSE remotePeerConnected,
     calls |-> << [fn |-> "ConnectN4", ok |-> connectOK] >>]

\* a variant of AssociateAllowed: the configuration is not checked
AssociateAllowedUnchecked == TRUE

\* Associate's guard on the configuration (server.go:68)
AssociateAllowed == isConfigured

Associate ==
    \E connectOK \in BOOLEAN, setupOK \in BOOLEAN :
        LET req == [connectOK |-> connectOK, setupOK |-> setupOK]
            conn == IF ~isRemotePeerConnected
                    THEN connectPFCPSim(connectOK)
                    ELSE [ok |-> TRUE, connected |-> remotePeerConnected,
                          calls |-> <<>>]
            setup == << [fn |-> "SetupAssociation", ok |-> setupOK] >>
        IN
        /\ last.op = "Idle"
        /\ UNCHANGED concVars
        /\ UNCHANGED <<created, peerSessions>>
        /\ IF ~AssociateAllowed
           THEN /\ last' = Response("Associate", req, "Aborted", "NotConfigured",
                                    <<>>, <<>>)
                /\ UNCHANGED <<remotePeerAddress, upfN3Address, remotePeerConnected,
                               activeSessions, nextHandle, configureOK, associateOK>>
           ELSE IF ~conn.ok
           THEN /\ last' = Response("Associate", req, "Aborted", "TransportFailure",
                                    conn.calls, <<>>)
                /\ remotePeerConnected' = conn.connected
                /\ UNCHANGED <<remotePeerAddress, upfN3Address, activeSessions,
                               nextHandle, configureOK, associateOK>>
           ELSE IF ~setupOK
           THEN /\ last' = Response("Associate", req, "Aborted", "ProtocolFailure",
                                    conn.calls \o setup, <<>>)
                /\ remotePeerConnected' = conn.connected
                /\ UNCHANGED <<remotePeerAddress, upfN3Address, activeSessions,
                               nextHandle, configureOK, associateOK>>
           ELSE /\ last' = Response("Associate", req, "OK", "None",
                                    conn.calls \o setup, <<>>)
                /\ remotePeerConnected' = conn.connected
                /\ associateOK' = TRUE
                /\ UNCHANGED <<remotePeerAddress, upfN3Address, activeSessions,
                               nextHandle, configureOK>>

\* a variant of AfterDisconnect: the flag follows the outcome of the close
AfterDisconnectIfClosed(closeOK) == ~closeOK

\* remotePeerConnected after sim.DisconnectN4(), whose outcome is not read
AfterDisconnect(closeOK) == FALSE

Disassociate ==
    \E teardownOK \in BOOLEAN, closeOK \in BOOLEAN :
        LET req == [teardownOK |-> teardownOK, closeOK |-> closeOK]
            status == checkServerStatus
            teardown == << [fn |-> "TeardownAssociation", ok |-> teardownOK] >>
            disconnect == << [fn |-> "DisconnectN4", ok |-> closeOK] >>
        IN
        /\ last.op = "Idle"
        /\ UNCHANGED concVars
        /\ UNCHANGED <<created, peerSessions>>
        /\ IF status # "None"
           THEN /\ last' = Response("Disassociate", req, "Aborted", status, <<>>, <<>>)
                /\ UNCHANGED <<remotePeerAddress, upfN3Address, remotePeerConnected,
                               activeSessions, nextHandle, configureOK, associateOK>>
           ELSE IF ~teardownOK
           THEN /\ last' = Response("Disassociate", req, "Aborted", "ProtocolFailure",
                                    teardown, <<>>)
                /\ UNCHANGED <<remotePeerAddress, upfN3Address, remotePeerConnected,
                               activeSessions, nextHandle, configureOK, associateOK>>
           ELSE /\ last' = Response("Disassociate", req, "OK", "None",
                                    teardown \o disconnect, <<>>)
                /\ remotePeerConnected' = AfterDisconnect(closeOK)
                /\ associateOK' = FALSE
                /\ UNCHANGED <<remotePeerAddress, upfN3Address, activeSessions,
                               nextHandle, configureOK>>

----------------------------------------------------------------------------
(* CreateSession *)

\* the loop of the three session handlers:
\*   for i := baseID; i < (count*SessionStep + baseID); i = i + SessionStep
LoopEnd(baseID, count) == count * SessionStep + baseID

\* a variant of NextKey: the loop advances by one
NextKeyByOne(i) == i + 1

NextKey(i) == i + SessionStep

\* ID at the j-th application filter (j = 1, 2, ...) of session key i:
\* ID := uint16(i), then ID += 2 after each filter
RECURSIVE CreateID(_, _)
CreateID(i, j) == IF j <= 1 THEN Uint16(i) ELSE Uint16(CreateID(i, j - 1) + 2)

uplinkPdrID(ID) == ID

downlinkPdrID(ID) == Uint16(ID + 1)

uplinkFarID(ID) == Uint32(ID)

downlinkFarID(ID) == Uint32(Uint16(ID + 1))

sessQerID == 0

\* the session QER, the only element of qers
SessionQERs ==
    << [id |-> sessQerID, method |-> "Create", scope |-> "session"] >>

\* the rules of one loop iteration, in the order they are appended
SessionPDRs(i, ueAddress, filters) ==
    [m \in 1..(2 * Len(filters)) |->
        LET ID == CreateID(i, (m + 1) \div 2) IN
        IF m % 2 = 1
        THEN [id |-> uplinkPdrID(ID), method |-> "Create", dir |-> "uplink",
              teid |-> Uint32(i), farID |-> uplinkFarID(ID),
              qerIDs |-> <<sessQerID>>, n3 |-> upfN3Address, ueAddress |-> <<>>]
        ELSE [id |-> downlinkPdrID(ID), method |-> "Create", dir |-> "downlink",
              teid |-> 0, farID |-> downlinkFarID(ID),
              qerIDs |-> <<sessQerID>>, n3 |-> <<>>, ueAddress |-> ueAddress]]

SessionFARs(i, filters) ==
    [m \in 1..(2 * Len(filters)) |->
        LET ID == CreateID(i, (m + 1) \div 2) IN
        IF m % 2 = 1
        THEN [id |-> uplinkFarID(ID), method |-> "Create",
              action |-> ActionForward, dst |-> "core", teid |-> 0]
        ELSE [id |-> downlinkFarID(ID), method |-> "Create",
              action |-> ActionForward, dst |-> "access", teid |-> 0]]

\* the application QERs of one iteration: built, and assigned to _
DiscardedAppQERs(i, filters) ==
    [m \in 1..(2 * Len(filters)) |->
        LET ID == CreateID(i, (m + 1) \div 2) IN
        [id |-> IF m % 2 = 1 THEN Uint32(ID) ELSE Uint32(Uint16(ID + 1)),
         method |-> "Create", scope |-> "application"]]

\* the qers handed to sim.EstablishSession
EstablishQERs(i, filters) == SessionQERs

\* every application filter of the request parses
FiltersParse(filters) == \A j \in 1..Len(filters) : parseAppFilterOK(filters[j])

\* the first UE address source: net.ParseCIDR's first result
FirstUEAddr(pool) == CIDRAddress(pool)

Result(code, err, store, h, calls, inserts) ==
    [code |-> code, err |-> err, store |-> store, handle |-> h,
     calls |-> calls, inserts |-> inserts]

RECURSIVE CreateLoop(_, _, _, _, _, _, _)
CreateLoop(req, i, store, lastUEAddr, h, calls, inserts) ==
    IF ~(i < LoopEnd(req.baseID, req.count))
    THEN Result("OK", "None", store, h, calls, inserts)
    ELSE
      LET ueAddress == NextIP(lastUEAddr) IN
      IF ~FiltersParse(req.appFilters)
      THEN Result("Aborted", "InvalidFilterSyntax", store, h, calls, inserts)
      ELSE
        LET ok == (Len(calls) + 1 # req.failAt)
            call == [fn |-> "EstablishSession", key |-> i, ok |-> ok,
                     sess |-> IF ok THEN h + 1 ELSE 0,
                     ueAddress |-> ueAddress,
                     pdrs |-> SessionPDRs(i, ueAddress, req.appFilters),
                     fars |-> SessionFARs(i, req.appFilters),
                     qers |-> EstablishQERs(i, req.appFilters)]
        IN
        IF ~ok
        THEN Result("Internal", "ProtocolFailure", store, h,
                    Append(calls, call), inserts)
        ELSE CreateLoop(req, NextKey(i), insertSession(store, i, h + 1),
                        ueAddress, h + 1, Append(calls, call),
                        Append(inserts, i))

\* a variant of CreateBody: the number of application filters is not checked
CreateBodyAnyFilters(req) ==
    IF ~IsCIDR(req.ueAddressPool)
    THEN Result("Aborted", "AddressPoolParseError", activeSessions, nextHandle,
                <<>>, <<>>)
    ELSE CreateLoop(req, req.baseID, activeSessions,
                    FirstUEAddr(req.ueAddressPool), nextHandle, <<>>, <<>>)

\* the handler after checkServerStatus has passed
CreateBody(req) ==
    IF ~IsCIDR(req.ueAddressPool)
    THEN Result("Aborted", "AddressPoolParseError", activeSessions, nextHandle,
                <<>>, <<>>)
    ELSE IF ~isNumOfAppFiltersCorrect(req.appFilters)
    THEN Result("Aborted", "TooManyFilters", activeSessions, nextHandle,
                <<>>, <<>>)
    ELSE CreateLoop(req, req.baseID, activeSessions,
                    FirstUEAddr(req.ueAddressPool), nextHandle, <<>>, <<>>)

\* the sessions that the calls of a request established at the PFCP client
Established(calls) ==
    {calls[m].sess : m \in {n \in 1..Len(calls) : calls[n].ok}}

\* the sessions that the calls of a request deleted at the PFCP client
Deleted(calls) ==
    {calls[m].sess : m \in {n \in 1..Len(calls) : calls[n].ok}}

SessionResult(status, body) ==
    IF status # "None"
    THEN Result("Aborted", status, activeSessions, nextHandle, <<>>, <<>>)
    ELSE body

CreateSession ==
    \E baseID \in BaseIDs, count \in Counts, in \in CreateInputs :
      \E failAt \in FailInputs(count) :
        LET req == [baseID |-> baseID, count |-> count, ueAddressPool |-> in[1],
                    appFilters |-> in[2], failAt |-> failAt]
            r == SessionResult(checkServerStatus, CreateBody(req))
        IN
        /\ last.op = "Idle"
        /\ UNCHANGED concVars
        /\ nextHandle + count <= MaxHandles
        /\ peerSessions' = peerSessions \cup Established(r.calls)
        /\ activeSessions' = r.store
        /\ nextHandle' = r.handle
        /\ last' = Response("CreateSession", req, r.code, r.err, r.calls,
                            r.inserts)
        /\ UNCHANGED <<remotePeerAddress, upfN3Address, remotePeerConnected,
                       configureOK, associateOK, created>>

----------------------------------------------------------------------------
(* ModifySession *)

\* a variant of EnoughSessions: only an empty store is refused
EnoughSessionsNonEmpty(store, count) == count = 0 \/ lenSessions(store) > 0

\* the precondition on the number of sessions (server.go:274, 350)
EnoughSessions(store, count) == ~(lenSessions(store) < count)

\* a variant of ModifyActions: each flag sets its own bit
ModifyActionsPerFlag(bufferFlag, notifyCPFlag) ==
    IF bufferFlag \/ notifyCPFlag
    THEN (IF bufferFlag THEN ActionBuffer ELSE {})
             \cup (IF notifyCPFlag THEN ActionNotify ELSE {})
    ELSE ActionForward

\* actions, from the two flags of the request
ModifyActions(bufferFlag, notifyCPFlag) ==
    IF bufferFlag \/ notifyCPFlag
    THEN ActionNotify \cup ActionBuffer
    ELSE ActionForward

ModifyTEID(i, bufferFlag, notifyCPFlag) ==
    IF bufferFlag \/ notifyCPFlag THEN 0 ELSE Uint32(i + 1)

\* ID at the j-th application filter: ID := uint32(i + 1), then ID += 2
RECURSIVE ModifyID(_, _)
ModifyID(i, j) == IF j <= 1 THEN Uint32(i + 1) ELSE Uint32(ModifyID(i, j - 1) + 2)

NewFARs(i, req) ==
    [j \in 1..Len(req.appFilters) |->
        [id |-> ModifyID(i, j), method |-> "Update",
         action |-> ModifyActions(req.bufferFlag, req.notifyCPFlag),
         dst |-> "access",
         teid |-> ModifyTEID(i, req.bufferFlag, req.notifyCPFlag)]]

RECURSIVE ModifyLoop(_, _, _)
ModifyLoop(req, i, calls) ==
    IF ~(i < LoopEnd(req.baseID, req.count))
    THEN Result("OK", "None", activeSessions, nextHandle, calls, <<>>)
    ELSE IF ~hasSession(activeSessions, i)
    THEN Result("Internal", "SessionNotFound", activeSessions, nextHandle,
                calls, <<>>)
    ELSE
      LET ok == (Len(calls) + 1 # req.failAt)
          call == [fn |-> "ModifySession", key |-> i, ok |-> ok,
                   sess |-> activeSessions[i], fars |-> NewFARs(i, req)]
      IN
      IF ~ok
      THEN Result("Internal", "ProtocolFailure", activeSessions, nextHandle,
                  Append(calls, call), <<>>)
      ELSE ModifyLoop(req, NextKey(i), Append(calls, call))

ModifyBody(req) ==
    IF ~EnoughSessions(activeSessions, req.count)
    THEN Result("Aborted", "NotEnoughSessions", activeSessions, nextHandle,
                <<>>, <<>>)
    ELSE IF ~isNumOfAppFiltersCorrect(req.appFilters)
    THEN Result("Aborted", "TooManyFilters", activeSessions, nextHandle,
                <<>>, <<>>)
    ELSE ModifyLoop(req, req.baseID, <<>>)

ModifySession ==
    \E baseID \in BaseIDs, count \in Counts, in \in ModifyInputs :
      \E failAt \in FailInputs(count) :
        LET req == [baseID |-> baseID, count |-> count,
                    bufferFlag |-> in[1], notifyCPFlag |-> in[2],
                    appFilters |-> in[3], failAt |-> failAt]
            r == SessionResult(checkServerStatus, ModifyBody(req))
        IN
        /\ last.op = "Idle"
        /\ UNCHANGED concVars
        /\ activeSessions' = r.store
        /\ nextHandle' = r.handle
        /\ last' = Response("ModifySession", req, r.code, r.err, r.calls,
                            r.inserts)
        /\ UNCHANGED <<remotePeerAddress, upfN3Address, remotePeerConnected,
                       configureOK, associateOK, created, peerSessions>>

----------------------------------------------------------------------------
(* DeleteSession *)

\* a variant of DeleteLoop: a failed delete is skipped and the loop goes on
RECURSIVE DeleteLoopContinue(_, _, _, _)
DeleteLoopContinue(req, i, store, calls) ==
    IF ~(i < LoopEnd(req.baseID, req.count))
    THEN Result("OK", "None", store, nextHandle, calls, <<>>)
    ELSE IF ~hasSession(store, i)
    THEN Result("Aborted", "SessionNotFound", store, nextHandle, calls, <<>>)
    ELSE
      LET ok == (Len(calls) + 1 # req.failAt)
          call == [fn |-> "DeleteSession", key |-> i, ok |-> ok,
                   sess |-> store[i]]
      IN
      IF ~ok
      THEN LET rest == DeleteLoopContinue(req, NextKey(i), store,
                                          Append(calls, call))
           IN Result("Aborted", "ProtocolFailure", rest.store, nextHandle,
                     rest.calls, <<>>)
      ELSE DeleteLoopContinue(req, NextKey(i), deleteSession(store, i),
                              Append(calls, call))

RECURSIVE DeleteLoop(_, _, _, _)
DeleteLoop(req, i, store, calls) ==
    IF ~(i < LoopEnd(req.baseID, req.count))
    THEN Result("OK", "None", store, nextHandle, calls, <<>>)
    ELSE IF ~hasSession(store, i)
    THEN Result("Aborted", "SessionNotFound", store, nextHandle, calls, <<>>)
    ELSE
      LET ok == (Len(calls) + 1 # req.failAt)
          call == [fn |-> "DeleteSession", key |-> i, ok |-> ok,
                   sess |-> store[i]]
      IN
      IF ~ok
      THEN Result("Aborted", "ProtocolFailure", store, nextHandle,
                  Append(calls, call), <<>>)
      ELSE DeleteLoop(req, NextKey(i), deleteSession(store, i),
                      Append(calls, call))

DeleteBody(req) ==
    IF ~EnoughSessions(activeSessions, req.count)
    THEN Result("Aborted", "NotEnoughSessions", activeSessions, nextHandle,
                <<>>, <<>>)
    ELSE DeleteLoop(req, req.baseID, activeSessions, <<>>)

DeleteSession ==
    \E baseID \in BaseIDs, count \in Counts :
      \E failAt \in FailInputs(count) :
        LET req == [baseID |-> baseID, count |-> count, failAt |-> failAt]
            r == SessionResult(checkServerStatus, DeleteBody(req))
        IN
        /\ last.op = "Idle"
        /\ UNCHANGED concVars
        /\ activeSessions' = r.store
        /\ nextHandle' = r.handle
        /\ peerSessions' = peerSessions \ Deleted(r.calls)
        /\ last' = Response("DeleteSession", req, r.code, r.err, r.calls,
                            r.inserts)
        /\ UNCHANGED <<remotePeerAddress, upfN3Address, remotePeerConnected,
                       configureOK, associateOK, created>>

----------------------------------------------------------------------------

Next ==
    \/ Configure
    \/ Associate
    \/ Disassociate
    \/ CreateSession
    \/ ModifySession
    \/ DeleteSession
    \/ Return

Spec == Init /\ [][Next]_vars

----------------------------------------------------------------------------
(* Calls served side by side: gRPC runs every call in a goroutine of its
   own, and the handlers share the package variables. Each action below is
   one statement of a handler, or one call it makes. *)

\* the requests of the calls served side by side
ConcBaseIDs == {1}

ConcCounts == 1..MaxCount

\* the sim.DeleteSession calls counted per session
MaxDelCalls == 2

\* the handlers read and write none of these while a call is served
ServedApart == <<created, last>>

\* worker w is at statement at, with the locals l
Goto(w, at, l) ==
    /\ pc' = [pc EXCEPT ![w] = at]
    /\ loc' = [loc EXCEPT ![w] = l]

\* worker w reaches a return statement of its handler
Done(w, code) == Goto(w, "done", [loc[w] EXCEPT !.code = code])

\* the locals of a call as it starts
Call(op, baseID, count) ==
    [NoCall EXCEPT !.op = op, !.baseID = baseID, !.count = count,
                   !.i = baseID]

\* a call to the PFCP client in a loop iteration that started after the
\* context was cancelled
Late(w) == loc[w].late \/ loc[w].cancelled

\* the loop goes on at statement at, or the handler goes on at statement out
Iterate(w, at, out, l) ==
    IF NextKey(loc[w].i) < LoopEnd(loc[w].baseID, loc[w].count)
    THEN Goto(w, at, [l EXCEPT !.i = NextKey(loc[w].i)])
    ELSE Goto(w, out, l)

\* the response reaches the caller of worker w
WorkerReturn(w) ==
    /\ pc[w] = "done"
    /\ Goto(w, "idle", NoCall)
    /\ UNCHANGED <<remotePeerAddress, upfN3Address, remotePeerConnected,
                   activeSessions, nextHandle, configureOK, associateOK,
                   peerSessions, openConns, delCalls, access>>
    /\ UNCHANGED ServedApart

\* Configure, with well-formed addresses
ConfigureCall(w) ==
    /\ pc[w] = "idle"
    /\ ~isConfigured
    /\ remotePeerAddress' = "10.0.0.1"
    /\ upfN3Address' = <<10, 0, 0, 2>>
    /\ configureOK' = TRUE
    /\ Done(w, "OK")
    /\ UNCHANGED <<remotePeerConnected, activeSessions, nextHandle,
                   associateOK, peerSessions, openConns, delCalls, access>>
    /\ UNCHANGED ServedApart

\* Associate: if !isConfigured() ...; if !isRemotePeerConnected() ...
AssociateCheck(w) ==
    /\ pc[w] = "idle"
    /\ IF ~AssociateAllowed
       THEN Done(w, "Aborted")
       ELSE IF ~isRemotePeerConnected
       THEN Goto(w, "connect", Call("Associate", 0, 0))
       ELSE Goto(w, "setup", Call("Associate", 0, 0))
    /\ UNCHANGED <<remotePeerAddress, upfN3Address, remotePeerConnected,
                   activeSessions, nextHandle, configureOK, associateOK,
                   peerSessions, openConns, delCalls, access>>
    /\ UNCHANGED ServedApart

\* Associate: connectPFCPSim()
AssociateConnect(w) ==
    \E connectOK \in BOOLEAN :
        LET conn == connectPFCPSim(connectOK) IN
        /\ pc[w] = "connect"
        /\ remotePeerConnected' = conn.connected
        /\ openConns' = IF conn.ok THEN openConns + 1 ELSE openConns
        /\ IF conn.ok THEN Goto(w, "setup", loc[w]) ELSE Done(w, "Aborted")
        /\ UNCHANGED <<remotePeerAddress, upfN3Address, activeSessions,
                       nextHandle, configureOK, associateOK, peerSessions,
                       delCalls, access>>
        /\ UNCHANGED ServedApart

\* Associate: sim.SetupAssociation()
AssociateSetup(w) ==
    \E setupOK \in BOOLEAN :
        /\ pc[w] = "setup"
        /\ associateOK' = (associateOK \/ setupOK)
        /\ Done(w, IF setupOK THEN "OK" ELSE "Aborted")
        /\ UNCHANGED <<remotePeerAddress, upfN3Address, remotePeerConnected,
                       activeSessions, nextHandle, configureOK, peerSessions,
                       openConns, delCalls, access>>
        /\ UNCHANGED ServedApart

\* the iterations that the CreateSession call of worker w has still to run
RECURSIVE ToEstablish(_)
ToEstablish(ws) ==
    IF ws = {} THEN 0
    ELSE LET w == CHOOSE x \in ws : TRUE
             left == IF pc[w] = "establish"
                     THEN (LoopEnd(loc[w].baseID, loc[w].count) - loc[w].i
                              + SessionStep - 1) \div SessionStep
                     ELSE IF pc[w] = "insert"
                     THEN (LoopEnd(loc[w].baseID, loc[w].count)
                              - NextKey(loc[w].i) + SessionStep - 1)
                              \div SessionStep
                     ELSE 0
         IN left + ToEstablish(ws \ {w})

\* CreateSession: checkServerStatus(), a well-formed pool and no filter
CreateStart(w) ==
    \E baseID \in ConcBaseIDs, count \in ConcCounts :
        /\ pc[w] = "idle"
        /\ nextHandle + ToEstablish(Workers) + count <= MaxHandles
        /\ IF checkServerStatus # "None"
           THEN Done(w, "Aborted")
           ELSE Goto(w, "establish", Call("CreateSession", baseID, count))
        /\ UNCHANGED <<remotePeerAddress, upfN3Address, remotePeerConnected,
                       activeSessions, nextHandle, configureOK, associateOK,
                       peerSessions, openConns, delCalls, access>>
        /\ UNCHANGED ServedApart

\* CreateSession: sim.EstablishSession(pdrs, fars, qers)
CreateEstablish(w) ==
    \E ok \in BOOLEAN :
        /\ pc[w] = "establish"
        /\ IF ok
           THEN /\ nextHandle' = nextHandle + 1
                /\ peerSessions' = peerSessions \cup {nextHandle + 1}
                /\ Goto(w, "insert", [loc[w] EXCEPT !.sess = nextHandle + 1,
                                                    !.late = Late(w)])
           ELSE /\ UNCHANGED <<nextHandle, peerSessions>>
                /\ Done(w, "Internal")
        /\ UNCHANGED <<remotePeerAddress, upfN3Address, remotePeerConnected,
                       activeSessions, configureOK, associateOK, openConns,
                       delCalls, access>>
        /\ UNCHANGED ServedApart

\* CreateSession: insertSession(i, sess), and the loop step
CreateInsert(w) ==
    /\ pc[w] = "insert"
    /\ activeSessions' = insertSession(activeSessions, loc[w].i, loc[w].sess)
    /\ access' = [worker |-> w, fn |-> "insertSession", locked |-> TRUE]
    /\ Iterate(w, "establish", "done", [loc[w] EXCEPT !.code = "OK"])
    /\ UNCHANGED <<remotePeerAddress, upfN3Address, remotePeerConnected,
                   nextHandle, configureOK, associateOK, peerSessions,
                   openConns, delCalls>>
    /\ UNCHANGED ServedApart

\* ModifySession and DeleteSession: checkServerStatus(), then
\* len(activeSessions) < count, read from the map itself
CountCheck(w, op, at) ==
    \E baseID \in ConcBaseIDs, count \in ConcCounts :
        /\ IF checkServerStatus # "None"
           THEN Done(w, "Aborted") /\ UNCHANGED access
           ELSE /\ access' = [worker |-> w, fn |-> "len", locked |-> FALSE]
                /\ IF ~EnoughSessions(activeSessions, count)
                   THEN Done(w, "Aborted")
                   ELSE Goto(w, at, Call(op, baseID, count))
        /\ UNCHANGED <<remotePeerAddress, upfN3Address, remotePeerConnected,
                       activeSessions, nextHandle, configureOK, associateOK,
                       peerSessions, openConns, delCalls>>
        /\ UNCHANGED ServedApart

\* getSession(i); missing is the status code of the handler for !ok
GetSession(w, at, missing) ==
    /\ access' = [worker |-> w, fn |-> "getSession", locked |-> TRUE]
    /\ IF ~hasSession(activeSessions, loc[w].i)
       THEN Done(w, missing)
       ELSE Goto(w, at, [loc[w] EXCEPT !.sess = activeSessions[loc[w].i]])
    /\ UNCHANGED <<remotePeerAddress, upfN3Address, remotePeerConnected,
                   activeSessions, nextHandle, configureOK, associateOK,
                   peerSessions, openConns, delCalls>>
    /\ UNCHANGED ServedApart

ModifyStart(w) ==
    /\ pc[w] = "idle"
    /\ CountCheck(w, "ModifySession", "mget")

\* ModifySession: sess, ok := getSession(i)
ModifyGet(w) ==
    /\ pc[w] = "mget"
    /\ GetSession(w, "mcall", "Internal")

\* ModifySession: sim.ModifySession(sess, nil, newFARs, nil), and the loop
\* step
ModifyCall(w) ==
    \E ok \in BOOLEAN :
        /\ pc[w] = "mcall"
        /\ IF ok
           THEN Iterate(w, "mget", "done",
                        [loc[w] EXCEPT !.late = Late(w), !.code = "OK"])
           ELSE Done(w, "Internal")
        /\ UNCHANGED <<remotePeerAddress, upfN3Address, remotePeerConnected,
                       activeSessions, nextHandle, configureOK, associateOK,
                       peerSessions, openConns, delCalls, access>>
        /\ UNCHANGED ServedApart

DeleteStart(w) ==
    /\ pc[w] = "idle"
    /\ CountCheck(w, "DeleteSession", "dget")

\* DeleteSession: sess, ok := getSession(i)
DeleteGet(w) ==
    /\ pc[w] = "dget"
    /\ GetSession(w, "dcall", "Aborted")

\* the outcomes of sim.DeleteSession(sess) here: the peer deletes a session
\* it holds, and may refuse one it holds no more (the failures of the
\* transport are those of DeleteLoop)
DeleteOutcomes(sess) == IF sess \in peerSessions THEN {TRUE} ELSE BOOLEAN

\* DeleteSession: sim.DeleteSession(sess)
DeleteCall(w) ==
    \E ok \in DeleteOutcomes(loc[w].sess) :
        /\ pc[w] = "dcall"
        /\ delCalls[loc[w].sess] < MaxDelCalls
        /\ delCalls' = [delCalls EXCEPT ![loc[w].sess] = @ + 1]
        /\ IF ok
           THEN /\ peerSessions' = peerSessions \ {loc[w].sess}
                /\ Goto(w, "dremove", [loc[w] EXCEPT !.late = Late(w)])
           ELSE /\ UNCHANGED peerSessions
                /\ Done(w, "Aborted")
        /\ UNCHANGED <<remotePeerAddress, upfN3Address, remotePeerConnected,
                       activeSessions, nextHandle, configureOK, associateOK,
                       openConns, access>>
        /\ UNCHANGED ServedApart

\* DeleteSession: deleteSession(i), and the loop step
DeleteRemove(w) ==
    /\ pc[w] = "dremove"
    /\ activeSessions' = deleteSession(activeSessions, loc[w].i)
    /\ access' = [worker |-> w, fn |-> "deleteSession", locked |-> TRUE]
    /\ Iterate(w, "dget", "dsummary", loc[w])
    /\ UNCHANGED <<remotePeerAddress, upfN3Address, remotePeerConnected,
                   nextHandle, configureOK, associateOK, peerSessions,
                   openConns, delCalls>>
    /\ UNCHANGED ServedApart

\* DeleteSession: the summary reads len(activeSessions) from the map itself
DeleteSummary(w) ==
    /\ pc[w] = "dsummary"
    /\ access' = [worker |-> w, fn |-> "len", locked |-> FALSE]
    /\ Done(w, "OK")
    /\ UNCHANGED <<remotePeerAddress, upfN3Address, remotePeerConnected,
                   activeSessions, nextHandle, configureOK, associateOK,
                   peerSessions, openConns, delCalls>>
    /\ UNCHANGED ServedApart

\* the caller cancels the context of the call as a loop iteration is about
\* to start
Cancel(w) ==
    /\ pc[w] \in {"establish", "mget", "dget"}
    /\ ~loc[w].cancelled
    /\ Goto(w, pc[w], [loc[w] EXCEPT !.cancelled = TRUE])
    /\ UNCHANGED <<remotePeerAddress, upfN3Address, remotePeerConnected,
                   activeSessions, nextHandle, configureOK, associateOK,
                   peerSessions, openConns, delCalls, access>>
    /\ UNCHANGED ServedApart

NextConc ==
    \E w \in Workers :
        \/ ConfigureCall(w)
        \/ AssociateCheck(w)
        \/ AssociateConnect(w)
        \/ AssociateSetup(w)
        \/ CreateStart(w)
        \/ CreateEstablish(w)
        \/ CreateInsert(w)
        \/ ModifyStart(w)
        \/ ModifyGet(w)
        \/ ModifyCall(w)
        \/ DeleteStart(w)
        \/ DeleteGet(w)
        \/ DeleteCall(w)
        \/ DeleteRemove(w)
        \/ DeleteSummary(w)
        \/ Cancel(w)
        \/ WorkerReturn(w)

SpecConc == Init /\ [][NextConc]_vars

----------------------------------------------------------------------------
(* Properties *)

SessionOps == {"CreateSession", "ModifySession", "DeleteSession"}

Failed == last.code # "OK"

StoreUnchanged == activeSessions = last.before

NoClientCall == last.calls = <<>>

\* the key of the n-th loop iteration (n = 1, 2, ...) of the last request
KeyOf(n) == last.req.baseID + 10 * (n - 1)

\* the calls of the last request that the PFCP client completed
DoneCalls == {m \in 1..Len(last.calls) : last.calls[m].ok}

DoneKeys == {last.calls[m].key : m \in DoneCalls}

\* C1: a session operation fails with NotConfigured when no Configure call
\* has succeeded, and with NotAssociated when no Associate call has returned
\* success since the start or the last successful Disassociate; either way it
\* calls the PFCP client for no session and leaves the session store alone.
C1_NotReadyRejected ==
    last.op \in SessionOps =>
        /\ ~last.wasConfigured =>
              last.err = "NotConfigured" /\ NoClientCall /\ StoreUnchanged
        /\ (last.wasConfigured /\ ~last.wasAssociated) =>
              last.err = "NotAssociated" /\ NoClientCall /\ StoreUnchanged

\* C2: on a server that is configured and associated, a successful
\* CreateSession(baseID, count >= 1) followed at once by
\* DeleteSession(baseID, count) whose client calls all succeed leaves the
\* session store with the size it had before the create, whatever the store
\* held before.
C2_RoundTripSize ==
    ( /\ last.op = "DeleteSession"
      /\ last.prev.ok
      /\ last.prev.ready
      /\ last.prev.count >= 1
      /\ last.req.baseID = last.prev.baseID
      /\ last.req.count = last.prev.count
      /\ last.req.failAt = 0 )
    => lenSessions(activeSessions) = last.prev.size

\* C3: a successful CreateSession(baseID, count) inserts exactly the keys
\* baseID, baseID+10, ..., baseID+10*(count-1), once each, in increasing
\* order, and touches no other key of the session store.
C3_KeysInserted ==
    (last.op = "CreateSession" /\ last.code = "OK") =>
        /\ last.inserts = [n \in 1..last.req.count |-> KeyOf(n)]
        /\ DOMAIN activeSessions
              = DOMAIN last.before \cup {KeyOf(n) : n \in 1..last.req.count}
        /\ \A n \in 1..last.req.count :
              activeSessions[KeyOf(n)] = last.calls[n].sess
        /\ \A k \in DOMAIN last.before :
              k \notin {KeyOf(n) : n \in 1..last.req.count}
                  => activeSessions[k] = last.before[k]

C3_Witness ==
    /\ last.op = "CreateSession"
    /\ last.code = "OK"
    /\ last.req.count = 2
    /\ last.req.baseID = 65535
    /\ last.inserts = <<65535, 65545>>

\* C4: the rule set of every EstablishSession call made for k application
\* filters holds 2k PDRs, 2k FARs, 2k application QERs and one session QER
\* with id 0, and every PDR's FAR id is the id of a FAR of the same set.
C4_RuleSet ==
    last.op = "CreateSession" =>
        \A m \in 1..Len(last.calls) :
            LET c == last.calls[m]
                k == Len(last.req.appFilters)
                appQ == {q \in 1..Len(c.qers) : c.qers[q].scope = "application"}
                sessQ == {q \in 1..Len(c.qers) : c.qers[q].scope = "session"}
            IN /\ Len(c.pdrs) = 2 * k
               /\ Len(c.fars) = 2 * k
               /\ Cardinality(appQ) = 2 * k
               /\ Cardinality(sessQ) = 1
               /\ \A q \in sessQ : c.qers[q].id = 0
               /\ \A p \in 1..Len(c.pdrs) :
                     \E f \in 1..Len(c.fars) : c.fars[f].id = c.pdrs[p].farID

\* C5 as stated: ModifySession or DeleteSession with count above the size of
\* the session store fails with NotEnoughSessions, calls the PFCP client for
\* no session and leaves the store alone.
C5_AsStated ==
    ( /\ last.op \in {"ModifySession", "DeleteSession"}
      /\ last.req.count > lenSessions(last.before) )
    => last.err = "NotEnoughSessions" /\ NoClientCall /\ StoreUnchanged

\* C5, amended: ModifySession or DeleteSession with count above the size of
\* the session store calls the PFCP client for no session and leaves the
\* store alone; it fails with NotEnoughSessions when the server is configured
\* and associated, and with the server status error otherwise.
C5_NotEnoughSessions ==
    ( /\ last.op \in {"ModifySession", "DeleteSession"}
      /\ last.req.count > lenSessions(last.before) )
    => /\ NoClientCall
       /\ StoreUnchanged
       /\ last.code = "Aborted"
       /\ last.err = IF last.status = "None" THEN "NotEnoughSessions"
                                            ELSE last.status

C5_Witness ==
    /\ last.op = "DeleteSession"
    /\ last.status = "None"
    /\ last.req.count = 2
    /\ lenSessions(last.before) = 1
    /\ last.err = "NotEnoughSessions"

\* C6 as stated: CreateSession with more application filters than the
\* maximum fails with TooManyFilters, establishes no session and inserts no
\* key, for every count and baseID.
C6_AsStated ==
    ( /\ last.op = "CreateSession"
      /\ Len(last.req.appFilters) > MaxAppFilters )
    => /\ last.err = "TooManyFilters"
       /\ NoClientCall
       /\ last.inserts = <<>>
       /\ StoreUnchanged

\* C6, amended: CreateSession with more application filters than the maximum
\* fails before the first iteration, establishes no session and inserts no
\* key, for every count and baseID; the error is TooManyFilters when the
\* server is configured and associated and the address pool parses, the
\* server status error or the pool's parse error otherwise.
C6_TooManyFilters ==
    ( /\ last.op = "CreateSession"
      /\ Len(last.req.appFilters) > MaxAppFilters )
    => /\ NoClientCall
       /\ last.inserts = <<>>
       /\ StoreUnchanged
       /\ last.code = "Aborted"
       /\ last.err = IF last.status # "None" THEN last.status
                     ELSE IF ~IsCIDR(last.req.ueAddressPool)
                          THEN "AddressPoolParseError"
                          ELSE "TooManyFilters"

C6_Witness ==
    /\ last.op = "CreateSession"
    /\ Len(last.req.appFilters) > MaxAppFilters
    /\ last.req.count = 2
    /\ last.err = "TooManyFilters"

\* C7: a failed session operation stops at its first failing iteration: its
\* client calls are for the keys baseID, baseID+10, ... in order and only the
\* last of them can have failed; the store is the one the completed
\* iterations left: create keeps their keys inserted, delete keeps their keys
\* removed and every other key present, modify changes nothing.
C7_StopsAtFirstFailure ==
    (last.op \in SessionOps /\ Failed) =>
        /\ Len(last.calls) <= last.req.count
        /\ \A m \in 1..Len(last.calls) :
              /\ last.calls[m].key = KeyOf(m)
              /\ last.calls[m].ok \/ m = Len(last.calls)
        /\ last.op = "CreateSession" =>
              /\ DOMAIN activeSessions = DOMAIN last.before \cup DoneKeys
              /\ \A m \in DoneCalls :
                    activeSessions[KeyOf(m)] = last.calls[m].sess
              /\ \A k \in DOMAIN last.before \ DoneKeys :
                    activeSessions[k] = last.before[k]
              /\ last.inserts = [m \in 1..Cardinality(DoneCalls) |-> KeyOf(m)]
        /\ last.op = "DeleteSession" =>
              /\ DOMAIN activeSessions = DOMAIN last.before \ DoneKeys
              /\ \A k \in DOMAIN activeSessions :
                    activeSessions[k] = last.before[k]
        /\ last.op = "ModifySession" => StoreUnchanged

C7_Witness ==
    /\ last.op = "DeleteSession"
    /\ Failed
    /\ Len(last.calls) = 2
    /\ last.calls[1].ok
    /\ ~last.calls[2].ok
    /\ KeyOf(1) \notin DOMAIN activeSessions
    /\ KeyOf(2) \in DOMAIN activeSessions

\* C8: in every state, associated implies configured.
C8_AssociatedImpliesConfigured == isRemotePeerConnected => isConfigured

C8_Witness ==
    /\ isRemotePeerConnected
    /\ last.op = "Configure"
    /\ last.code = "OK"
    /\ last.req.remotePeerAddress = ""

\* the address n steps after ip
RECURSIVE Advance(_, _)
Advance(ip, n) == IF n = 0 THEN ip ELSE NextIP(Advance(ip, n - 1))

\* C9: the n-th session (n = 0, 1, ...) established by one CreateSession call
\* gets the UE address that is n+1 steps after the network address of the
\* pool, for every well-formed pool.
C9_UEAddressFromNetwork ==
    last.op = "CreateSession" =>
        \A m \in 1..Len(last.calls) :
            /\ last.calls[m].ueAddress
                  = Advance(CIDRNetwork(last.req.ueAddressPool), m)
            /\ \A p \in 1..Len(last.calls[m].pdrs) :
                  last.calls[m].pdrs[p].dir = "downlink"
                      => last.calls[m].pdrs[p].ueAddress
                            = Advance(CIDRNetwork(last.req.ueAddressPool), m)

\* C10: every FAR of a ModifySession call has the actions {Buffer, Notify}
\* and TEID 0 when the buffer flag or the notify flag is set, and the action
\* {Forward} when neither is; no FAR sent to the PFCP client has Forward
\* together with Buffer or Notify.
C10_ModifyFARActions ==
    \A m \in 1..Len(last.calls) :
        /\ last.calls[m].fn = "ModifySession" =>
              \A f \in 1..Len(last.calls[m].fars) :
                  LET far == last.calls[m].fars[f] IN
                  IF last.req.bufferFlag \/ last.req.notifyCPFlag
                  THEN far.action = {"Buffer", "Notify"} /\ far.teid = 0
                  ELSE far.action = {"Forward"}
        /\ last.calls[m].fn \in {"ModifySession", "EstablishSession"} =>
              \A f \in 1..Len(last.calls[m].fars) :
                  LET far == last.calls[m].fars[f] IN
                  "Forward" \in far.action
                      => far.action \cap {"Buffer", "Notify"} = {}

C10_Witness ==
    /\ last.op = "ModifySession"
    /\ last.req.bufferFlag
    /\ ~last.req.notifyCPFlag
    /\ Len(last.calls) = 2
    /\ Len(last.calls[2].fars) = 2
    /\ last.calls[2].fars[2].teid = 0

\* the failures of validation and of the preconditions
AbortedClass ==
    {"NotConfigured", "NotAssociated", "NotEnoughSessions", "InvalidAddress",
     "AddressPoolParseError", "TooManyFilters", "InvalidFilterSyntax"}

\* C11: every failed call carries the status class of its error: the
\* precondition failures (NotConfigured, NotAssociated, NotEnoughSessions)
\* and the parse and validation failures are reported as Aborted, and every
\* failure of the PFCP client while a session is established, modified or
\* deleted is reported as Internal.
C11_StatusClasses ==
    (last.op # "Idle" /\ Failed) =>
        /\ last.err \in AbortedClass => last.code = "Aborted"
        /\ (last.op \in SessionOps /\ last.err = "ProtocolFailure")
              => last.code = "Internal"

\* the downlink FAR ids CreateSession gives the n filters of key i
CreatedDownlinkFarID(i, j, n) == SessionFARs(i, FiltersOf(n))[2 * j].id

\* C14: the j-th FAR id ModifySession sends for key i is the downlink FAR id
\* CreateSession gave filter j of key i, for every baseID and count, keys at
\* or above 65535 included.
C14_ModifyFarIDsMatchCreate ==
    (last.op = "ModifySession" /\ last.wasConfigured /\ last.wasAssociated) =>
        \A m \in 1..Len(last.calls) :
            \A j \in 1..Len(last.calls[m].fars) :
                last.calls[m].fars[j].id
                    = CreatedDownlinkFarID(last.calls[m].key, j,
                                           Len(last.calls[m].fars))

\* the PDR ids and the FAR ids CreateSession gives key i with n filters
PdrIDs(i, n) ==
    {SessionPDRs(i, <<>>, FiltersOf(n))[m].id : m \in 1..(2 * n)}

FarIDs(i, n) == {SessionFARs(i, FiltersOf(n))[m].id : m \in 1..(2 * n)}

\* the two key ranges do not overlap
RangesApart(baseID1, count1, baseID2, count2) ==
    \/ LoopEnd(baseID1, count1) <= baseID2
    \/ LoopEnd(baseID2, count2) <= baseID1

\* C15: when a successful CreateSession follows a successful CreateSession
\* over a key range that does not overlap its own, the PDR ids and the FAR
\* ids of each key of the second call are disjoint from those of each key of
\* the first, for every baseID, count and number of filters.
C15_RuleIDsDisjoint ==
    ( /\ last.op = "CreateSession"
      /\ last.code = "OK"
      /\ last.prev.ok
      /\ RangesApart(last.prev.baseID, last.prev.count,
                     last.req.baseID, last.req.count) )
    => \A m \in 1..Len(last.calls), n \in 1..last.prev.count :
          LET i1 == last.prev.baseID + SessionStep * (n - 1)
              pdrs == last.calls[m].pdrs
              fars == last.calls[m].fars
          IN
          /\ {pdrs[p].id : p \in 1..Len(pdrs)}
                 \cap PdrIDs(i1, last.prev.filters) = {}
          /\ {fars[f].id : f \in 1..Len(fars)}
                 \cap FarIDs(i1, last.prev.filters) = {}

\* C12: within every Disassociate call on a ready server the transport is
\* closed only after the association teardown was issued in the same call,
\* and whenever the close is attempted the call ends with the server not
\* associated, whatever the outcome of the close.
C12_TeardownBeforeClose ==
    last.op = "Disassociate" =>
        \A m \in 1..Len(last.calls) :
            last.calls[m].fn = "DisconnectN4" =>
                /\ m > 1
                /\ last.calls[m - 1].fn = "TeardownAssociation"
                /\ last.calls[m - 1].ok
                /\ ~isRemotePeerConnected

C12_Witness ==
    /\ last.op = "Disassociate"
    /\ last.wasConfigured
    /\ last.wasAssociated
    /\ Len(last.calls) = 2
    /\ last.calls[1].fn = "TeardownAssociation"
    /\ last.calls[2].fn = "DisconnectN4"
    /\ ~last.calls[2].ok
    /\ ~isRemotePeerConnected

\* C18: a Configure call whose N3 address is not well formed fails with
\* Aborted and leaves the remote peer address, the N3 address, the configured
\* flag, the associated flag and the session store as they were.
C18_ConfigureFrame ==
    [][ ( /\ last.op = "Idle"
          /\ last'.op = "Configure"
          /\ ~IsIP(last'.req.upfN3Address) )
        => /\ last'.code = "Aborted"
           /\ remotePeerAddress' = remotePeerAddress
           /\ upfN3Address' = upfN3Address
           /\ isConfigured' = isConfigured
           /\ isRemotePeerConnected' = isRemotePeerConnected
           /\ activeSessions' = activeSessions ]_vars

C18_Witness ==
    /\ last.op = "Configure"
    /\ ~IsIP(last.req.upfN3Address)
    /\ last.req.remotePeerAddress # remotePeerAddress
    /\ last.code = "Aborted"
    /\ isConfigured
    /\ isRemotePeerConnected
    /\ lenSessions(activeSessions) >= 1

\* C20: between two RPC calls the handles of the session store are exactly
\* the sessions that were established at the PFCP client and not deleted
\* there since; no such session is without an entry of the store.
C20_StoreIsLiveSessions ==
    last.op = "Idle" =>
        {activeSessions[k] : k \in DOMAIN activeSessions} = peerSessions

\* C13: over every sequence and every interleaving of Associate calls on a
\* configured server, at most one transport connection is opened and not yet
\* closed; an Associate call that finds a connection uses it.
C13_OneConnection == openConns <= 1

\* C16: a CreateSession, ModifySession or DeleteSession call whose context is
\* cancelled while its loop runs calls the PFCP client in no iteration that
\* starts after the cancellation, and returns a cancellation error.
C16_CancelStopsLoop ==
    \A w \in Workers :
        /\ ~loc[w].late
        /\ (pc[w] = "done" /\ loc[w].cancelled) => loc[w].code = "Cancelled"

\* C17: under every interleaving of CreateSession, ModifySession and
\* DeleteSession calls, every access of a handler to the session store, the
\* reads of its size included, is made under the lock of the store.
C17_StoreAccessLocked == access.locked

\* C19: under every interleaving of DeleteSession calls, each session handle
\* is passed to sim.DeleteSession at most once.
C19_DeletedOnce == \A h \in DOMAIN delCalls : delCalls[h] <= 1

====
